---- MODULE Spec2Model ----
\* A model of nn_pruning/examples/text_classification/glue_xp.py:
\* GlueDataTrainingArguments.__post_init__ and the GlueXP methods
\* create_datasets, create_trainer, prepare and evaluate_model.
\*
\* Python strings that the code lower-cases, splits or sorts are sequences of
\* one-character strings; names that are only compared (column names, split
\* names, attribute names) are TLA+ strings.  An optional value is a sequence
\* of length 0 (Python None) or 1.
EXTENDS Integers, Sequences, FiniteSets, TLC

VARIABLES
    given,      \* the arguments GlueDataTrainingArguments was constructed with
    data_args,  \* the fields of the constructed GlueDataTrainingArguments
    pc,         \* the position of the run
    err,        \* the uncaught exception that ended the run, if any
    self,       \* the values of the GlueXP object's attributes
    attrs,      \* the names of the attributes assigned on the GlueXP object
    loc,        \* the local variables of the running create_datasets call
    tok_calls,  \* the keyword arguments of the tokenizer calls made so far
    logged,     \* whether the label mismatch warning was emitted
    ev          \* what evaluate_model and compute_metrics did

vars == <<given, data_args, pc, err, self, attrs, loc, tok_calls, logged, ev>>

None == <<>>

Some(x) == <<x>>

-----------------------------------------------------------------------------
\* Python string operations

UpperCase == <<"A","B","C","D","E","F","G","H","I","J","K","L","M",
               "N","O","P","Q","R","S","T","U","V","W","X","Y","Z">>

LowerCase == <<"a","b","c","d","e","f","g","h","i","j","k","l","m",
               "n","o","p","q","r","s","t","u","v","w","x","y","z">>

\* the code-point order of the characters the model uses
CodePoints == <<"-", ".", "0", "1", "2", "3", "4", "5", "6", "7", "8", "9">>
              \o UpperCase \o <<"_">> \o LowerCase

Ord(c) == CHOOSE i \in 1..Len(CodePoints) : CodePoints[i] = c

LowerChar(c) ==
    IF \E i \in 1..Len(UpperCase) : UpperCase[i] = c
    THEN LowerCase[CHOOSE i \in 1..Len(UpperCase) : UpperCase[i] = c]
    ELSE c

\* str.lower()
lower(s) == [i \in 1..Len(s) |-> LowerChar(s[i])]

\* s.split(".")[-1], without lower-casing
LastComponent(s) ==
    LET dots == {i \in 1..Len(s) : s[i] = "."}
        last == IF dots = {} THEN 0 ELSE CHOOSE i \in dots : \A j \in dots : j <= i
    IN  SubSeq(s, last + 1, Len(s))

\* s.endswith(suffix)
endswith(s, suffix) ==
    /\ Len(suffix) <= Len(s)
    /\ SubSeq(s, Len(s) - Len(suffix) + 1, Len(s)) = suffix

\* Python's order on str: lexicographic by code point
StrLess(a, b) ==
    \E k \in 1..(Len(b)) :
        /\ \A i \in 1..(k - 1) : i <= Len(a) /\ a[i] = b[i]
        /\ k - 1 <= Len(a)
        /\ \/ k = Len(a) + 1
           \/ k <= Len(a) /\ Ord(a[k]) < Ord(b[k])

-----------------------------------------------------------------------------
\* task_to_keys

T_cola == <<"c","o","l","a">>
T_mnli == <<"m","n","l","i">>
T_mrpc == <<"m","r","p","c">>
T_qnli == <<"q","n","l","i">>
T_qqp  == <<"q","q","p">>
T_rte  == <<"r","t","e">>
T_sst2 == <<"s","s","t","2">>
T_stsb == <<"s","t","s","b">>
T_wnli == <<"w","n","l","i">>

task_to_keys ==
    (T_cola :> <<"sentence", None>>) @@
    (T_mnli :> <<"premise", Some("hypothesis")>>) @@
    (T_mrpc :> <<"sentence1", Some("sentence2")>>) @@
    (T_qnli :> <<"question", Some("sentence")>>) @@
    (T_qqp  :> <<"question1", Some("question2")>>) @@
    (T_rte  :> <<"sentence1", Some("sentence2")>>) @@
    (T_sst2 :> <<"sentence", None>>) @@
    (T_stsb :> <<"sentence1", Some("sentence2")>>) @@
    (T_wnli :> <<"sentence1", Some("sentence2")>>)

-----------------------------------------------------------------------------
\* Inputs

DefaultMaxSeqLength == 128

SampleSize == 3

MaxRows == 3

F_a_csv  == <<"a",".","c","s","v">>
F_b_json == <<"b",".","j","s","o","n">>
F_c_txt  == <<"c",".","t","x","t">>
F_csv    == <<"c","s","v">>

E_csv  == <<"c","s","v">>
E_json == <<"j","s","o","n">>

TaskNameInputs ==
    {None} \cup {Some(t) : t \in DOMAIN task_to_keys}
           \cup {Some(<<"M","N","L","I">>), Some(<<"S","S","T","-","2">>), Some(<<>>)}

FileInputs == {None, Some(F_a_csv), Some(F_b_json), Some(F_c_txt), Some(F_csv)}

MaxSeqLengths == {DefaultMaxSeqLength}

\* label values of a csv/json label column
LabelValues == {0, 2, 5}

FileLabelDtypes == {"int64", "float32", "float64"}

SeqsUpTo(S, n) == UNION {[1..k -> S] : k \in 1..n}

TrainColumns == SeqsUpTo(LabelValues, MaxRows)

\* a validation split of one example
ValidationColumns == {<<v>> : v \in LabelValues}

ColumnNames == {"label", "sentence1", "sentence2", "text"}

\* column_names of a csv/json dataset: distinct names, "label" among them
ColumnLists ==
    {c \in SeqsUpTo(ColumnNames, Cardinality(ColumnNames)) :
        /\ \A i, j \in 1..Len(c) : i # j => c[i] # c[j]
        /\ \E i \in 1..Len(c) : c[i] = "label"}

\* names of a GLUE ClassLabel feature
L_no  == <<"n","o">>
L_yes == <<"y","e","s">>
L_e   == <<"e">>
L_n   == <<"n">>
L_c   == <<"c">>

NameLists == {<<L_no, L_yes>>, <<L_e, L_n, L_c>>}

\* "LABEL_<i>"
DefaultLabelName(i) == <<"L","A","B","E","L","_">> \o <<CodePoints[Ord("0") + i]>>

\* a dict is the sequence of its (key, value) pairs in insertion order
DictKeys(d) == [i \in 1..Len(d) |-> d[i][1]]

DictItems(d) == {d[i] : i \in 1..Len(d)}

\* dict == dict
DictEq(a, b) == DictItems(a) = DictItems(b)

DictGet(d, k) == d[CHOOSE i \in 1..Len(d) : d[i][1] = k][2]

\* PretrainedConfig(num_labels=n).label2id
DefaultLabel2Id(n) == [i \in 1..n |-> <<DefaultLabelName(i - 1), i - 1>>]

\* label2id tables a pretrained model's config may carry
Label2IdChoices ==
    { DefaultLabel2Id(2),
      << <<<<"Y","E","S">>, 0>>, <<<<"N","O">>, 1>> >>,
      << <<<<"P","O","S">>, 0>>, <<<<"N","E","G">>, 1>> >> }

BoolInputs == {TRUE, FALSE}

SrcPaths == {<<"r","u","n">>, <<"o","u","t",".","d">>}

OptimizeModes == {"dense", "block_sparse"}

-----------------------------------------------------------------------------
\* Exceptions: the kind raised and the source line that raises it

NoError == [kind |-> "", line |-> 0]

Raise(kind, line) == [kind |-> kind, line |-> line]

-----------------------------------------------------------------------------
\* GlueDataTrainingArguments.__post_init__

\* extension in ["csv", "json"]
ExtensionOk(file) == LastComponent(file) \in {E_csv, E_json}

\* __post_init__ without the lower-casing of line 81
post_init_case_sensitive(task_name, train_file, validation_file) ==
    IF task_name # None
    THEN [task_name |-> task_name,
          err |-> IF task_name[1] \notin DOMAIN task_to_keys
                  THEN Raise("ValueError", 83) ELSE NoError]
    ELSE [task_name |-> None,
          err |-> IF train_file = None \/ validation_file = None
                  THEN Raise("ValueError", 85)
                  ELSE IF ~ExtensionOk(train_file[1])
                  THEN Raise("AssertionError", 88)
                  ELSE IF ~ExtensionOk(validation_file[1])
                  THEN Raise("AssertionError", 93)
                  ELSE NoError]

\* __post_init__ without the check of validation_file's extension
post_init_train_only(task_name, train_file, validation_file) ==
    IF task_name # None
    THEN LET t == lower(task_name[1])
         IN  [task_name |-> Some(t),
              err |-> IF t \notin DOMAIN task_to_keys
                      THEN Raise("ValueError", 83) ELSE NoError]
    ELSE [task_name |-> None,
          err |-> IF train_file = None \/ validation_file = None
                  THEN Raise("ValueError", 85)
                  ELSE IF ~ExtensionOk(train_file[1])
                  THEN Raise("AssertionError", 88)
                  ELSE NoError]

\* the exception __post_init__ raises (NoError when it returns) and the
\* task_name it leaves on the object
post_init(task_name, train_file, validation_file) ==
    IF task_name # None
    THEN LET t == lower(task_name[1])
         IN  [task_name |-> Some(t),
              err |-> IF t \notin DOMAIN task_to_keys
                      THEN Raise("ValueError", 83) ELSE NoError]
    ELSE [task_name |-> None,
          err |-> IF train_file = None \/ validation_file = None
                  THEN Raise("ValueError", 85)
                  ELSE IF ~ExtensionOk(train_file[1])
                  THEN Raise("AssertionError", 88)
                  ELSE IF ~ExtensionOk(validation_file[1])
                  THEN Raise("AssertionError", 93)
                  ELSE NoError]

-----------------------------------------------------------------------------
\* create_datasets: loading

CsvSuffix == <<".","c","s","v">>

\* which loader lines 137-157 pick
Loader(args) ==
    IF args.task_name # None THEN "glue"
    ELSE IF endswith(args.train_file[1], CsvSuffix) THEN "csv"
    ELSE "json"

\* the split names of a GLUE dataset
GlueSplitNames(task) ==
    IF task = T_mnli
    THEN {"train", "validation_matched", "validation_mismatched",
          "test_matched", "test_mismatched"}
    ELSE {"train", "validation", "test"}

\* the label column of a GLUE split with n classes: class indices, and -1
\* in the unlabelled test splits
GlueColumn(split, n) ==
    IF split \in {"test", "test_matched", "test_mismatched"}
    THEN <<-1, -1>>
    ELSE [i \in 1..SampleSize |-> (i - 1) % n]

\* the label columns of the splits of a GLUE dataset
GlueLabels(task, n) == [sp \in GlueSplitNames(task) |-> GlueColumn(sp, n)]

\* the label columns of the splits of a csv/json dataset
FileLabels(train, validation) ==
    [sp \in {"train", "validation"} |-> IF sp = "train" THEN train ELSE validation]

\* what create_datasets has read of the loaded dataset: its builder, the label feature
\* (its dtype, and the names of a ClassLabel), the column names of the train
\* split, and the label column of every split
NoDataset ==
    [builder |-> "", dtype |-> "", names |-> <<>>, columns |-> <<>>, label |-> <<>>]

\* the label features load_dataset may return for the arguments
LabelFeatures(args) ==
    IF args.task_name # None
    THEN IF args.task_name[1] = T_stsb
         THEN {[dtype |-> "float32", names |-> <<>>]}
         ELSE {[dtype |-> "ClassLabel", names |-> names] : names \in NameLists}
    ELSE {[dtype |-> dtype, names |-> <<>>] : dtype \in FileLabelDtypes}

\* the label column of the train split, for the label feature
TrainLabels(args, feature) ==
    IF args.task_name # None
    THEN {GlueColumn("train", IF feature.names = <<>> THEN 1 ELSE Len(feature.names))}
    ELSE TrainColumns

\* the label columns of all splits, given that of the train split
SplitLabels(args, feature, train) ==
    IF args.task_name # None
    THEN {GlueLabels(args.task_name[1],
                     IF feature.names = <<>> THEN 1 ELSE Len(feature.names))}
    ELSE {FileLabels(train, validation) : validation \in ValidationColumns}

\* the column names of the train split, which lines 190-194 read of a
\* csv/json dataset only
TrainColumnNames(args) ==
    IF args.task_name # None THEN {<<>>} ELSE ColumnLists

-----------------------------------------------------------------------------
\* create_datasets: labels (lines 163-187)

\* Dataset.unique: the distinct values in order of first appearance
unique(col) ==
    LET F[i \in 0..Len(col)] ==
            IF i = 0 THEN <<>>
            ELSE IF \E j \in 1..(i - 1) : col[j] = col[i]
                 THEN F[i - 1] ELSE Append(F[i - 1], col[i])
    IN  F[Len(col)]

\* insertion of x into a sorted sequence, after the elements not greater
InsertInt(s, x) ==
    LET k == Cardinality({i \in 1..Len(s) : s[i] <= x})
    IN  SubSeq(s, 1, k) \o <<x>> \o SubSeq(s, k + 1, Len(s))

\* list.sort() on integers
sort(col) ==
    LET F[i \in 0..Len(col)] ==
            IF i = 0 THEN <<>> ELSE InsertInt(F[i - 1], col[i])
    IN  F[Len(col)]

InsertStr(s, x) ==
    LET k == Cardinality({i \in 1..Len(s) : ~StrLess(x, s[i])})
    IN  SubSeq(s, 1, k) \o <<x>> \o SubSeq(s, k + 1, Len(s))

\* sorted() on strings
sorted(names) ==
    LET F[i \in 0..Len(names)] ==
            IF i = 0 THEN <<>> ELSE InsertStr(F[i - 1], names[i])
    IN  F[Len(names)]

\* label_list without the sort of line 183
inferred_label_list_unsorted(train) == unique(train)

\* label_list of a csv/json dataset (lines 182-183)
inferred_label_list(train) == sort(unique(train))

\* the locals after lines 164-184; label_list is an optional value, None
\* when no assignment to the local was executed
derive_labels(task_name, ds) ==
    IF task_name # None
    THEN IF task_name[1] = T_stsb
         THEN [is_regression |-> TRUE, label_list |-> None, num_labels |-> 1]
         ELSE [is_regression |-> FALSE, label_list |-> Some(ds.names),
               num_labels |-> Len(ds.names)]
    ELSE IF ds.dtype \in {"float32", "float64"}
         THEN [is_regression |-> TRUE, label_list |-> None, num_labels |-> 1]
         ELSE LET label_list == inferred_label_list(ds.label["train"])
              IN  [is_regression |-> FALSE, label_list |-> Some(label_list),
                   num_labels |-> Len(label_list)]

-----------------------------------------------------------------------------
\* create_datasets: text fields (lines 189-203)

non_label_column_names(columns) == SelectSeq(columns, LAMBDA name : name # "label")

InSeq(x, s) == \E i \in 1..Len(s) : s[i] = x

\* the pair chosen for a csv/json dataset; ok is FALSE when line 201 indexes
\* an empty list
infer_keys(columns) ==
    LET nl == non_label_column_names(columns)
    IN  IF InSeq("sentence1", nl) /\ InSeq("sentence2", nl)
        THEN [ok |-> TRUE, key1 |-> "sentence1", key2 |-> Some("sentence2")]
        ELSE IF Len(nl) >= 2
        THEN [ok |-> TRUE, key1 |-> nl[1], key2 |-> Some(nl[2])]
        ELSE IF Len(nl) >= 1
        THEN [ok |-> TRUE, key1 |-> nl[1], key2 |-> None]
        ELSE [ok |-> FALSE, key1 |-> "", key2 |-> None]

resolve_keys(task_name, columns) ==
    IF task_name # None
    THEN [ok |-> TRUE, key1 |-> task_to_keys[task_name[1]][1],
          key2 |-> task_to_keys[task_name[1]][2]]
    ELSE infer_keys(columns)

-----------------------------------------------------------------------------
\* create_datasets: padding and label_to_id (lines 205-237)

padding_of(args) == IF args.pad_to_max_length THEN "max_length" ELSE "False"

max_length_of(args) ==
    IF args.pad_to_max_length THEN Some(args.max_seq_length) ELSE None

\* d[k] = v on a dict
DictSet(d, k, v) ==
    IF InSeq(k, DictKeys(d))
    THEN [i \in 1..Len(d) |-> IF d[i][1] = k THEN <<k, v>> ELSE d[i]]
    ELSE Append(d, <<k, v>>)

\* {k.lower(): v for k, v in label2id.items()}
label_name_to_id(label2id) ==
    LET F[i \in 0..Len(label2id)] ==
            IF i = 0 THEN <<>>
            ELSE DictSet(F[i - 1], lower(label2id[i][1]), label2id[i][2])
    IN  F[Len(label2id)]

\* the condition of line 219-223
remap_gate(label2id, num_labels, task_name, is_regression) ==
    /\ ~DictEq(label2id, DefaultLabel2Id(num_labels))
    /\ task_name # None
    /\ is_regression

\* {v: i for i, v in enumerate(label_list)}
dense_label_to_id(label_list) ==
    [v \in {label_list[i] : i \in 1..Len(label_list)} |->
        (CHOOSE i \in 1..Len(label_list) :
            /\ label_list[i] = v
            /\ \A j \in 1..Len(label_list) : label_list[j] = v => j <= i) - 1]

\* label_to_id and whether the warning of line 229 is emitted
resolve_label_to_id(label2id, num_labels, task_name, is_regression, label_list) ==
    IF remap_gate(label2id, num_labels, task_name, is_regression)
    THEN LET lnti == label_name_to_id(label2id)
         IN  IF sorted(DictKeys(lnti)) = sorted(label_list)
             THEN [table |-> Some([i \in 0..(num_labels - 1) |->
                                      DictGet(lnti, label_list[i + 1])]),
                   warned |-> FALSE]
             ELSE [table |-> None, warned |-> TRUE]
    ELSE IF task_name = None
    THEN [table |-> Some(dense_label_to_id(label_list)), warned |-> FALSE]
    ELSE [table |-> None, warned |-> FALSE]

-----------------------------------------------------------------------------
\* create_datasets: preprocess_function (lines 239-250)

\* the keyword arguments of the tokenizer call of line 245, and whether it
\* is given one text or two
tokenizer_call(key2, padding, max_length) ==
    [pair |-> key2 # None, padding |-> padding, max_length |-> max_length,
     truncation |-> TRUE]

\* line 249 raises KeyError on a label that is no key of the table
labels_ok(label_to_id, col) ==
    label_to_id # None => \A i \in 1..Len(col) : col[i] \in DOMAIN label_to_id[1]

\* preprocess_function without the rewrite of line 249
preprocess_labels_unchanged(label_to_id, col) == col

\* the label column of the result
preprocess_labels(label_to_id, col) ==
    IF label_to_id # None
    THEN [i \in 1..Len(col) |-> label_to_id[1][col[i]]]
    ELSE col

-----------------------------------------------------------------------------
\* State

NoGiven == [task_name |-> None, train_file |-> None, validation_file |-> None]

NoArgs ==
    [task_name |-> None, train_file |-> None, validation_file |-> None,
     pad_to_max_length |-> FALSE, max_seq_length |-> 0]

NoTrainer ==
    [do_train |-> FALSE, do_eval |-> FALSE, train_dataset |-> "",
     eval_dataset |-> "", data_collator |-> ""]

NoSelf ==
    [is_regression |-> FALSE, label_list |-> <<>>, num_labels |-> 0,
     sentence1_key |-> "", sentence2_key |-> None, label_to_id |-> None,
     config |-> <<>>, train_dataset |-> "unset", validation_dataset |-> "unset",
     trainer |-> NoTrainer]

NoLocals ==
    [datasets |-> NoDataset, mapped |-> <<>>, padding |-> "", max_length |-> None]

NoEval ==
    [src_path |-> <<>>, optimize_mode |-> "", run_from_dict |-> 0,
     read |-> {}, returned |-> FALSE, metric |-> ""]

Init ==
    /\ given = NoGiven
    /\ data_args = NoArgs
    /\ pc = "new"
    /\ err = NoError
    /\ self = NoSelf
    /\ attrs = {}
    /\ loc = NoLocals
    /\ tok_calls = {}
    /\ logged = FALSE
    /\ ev = NoEval

\* an uncaught exception ends the run
Fail(kind, line) ==
    /\ pc' = "failed"
    /\ err' = Raise(kind, line)

-----------------------------------------------------------------------------
\* GlueDataTrainingArguments(task_name, train_file, validation_file, ...)

PostInit ==
    /\ pc = "new"
    /\ \E task_name \in TaskNameInputs, train_file, validation_file \in FileInputs,
          pad_to_max_length \in BoolInputs, max_seq_length \in MaxSeqLengths :
          LET r == post_init(task_name, train_file, validation_file)
          IN  /\ given' = [task_name |-> task_name, train_file |-> train_file,
                           validation_file |-> validation_file]
              /\ data_args' = [task_name |-> r.task_name, train_file |-> train_file,
                               validation_file |-> validation_file,
                               pad_to_max_length |-> pad_to_max_length,
                               max_seq_length |-> max_seq_length]
              /\ err' = r.err
              /\ pc' = IF r.err = NoError THEN "constructed" ELSE "failed"
    /\ UNCHANGED <<self, attrs, loc, tok_calls, logged, ev>>

-----------------------------------------------------------------------------
\* GlueXP.evaluate_model(src_path, optimize_mode)

\* evaluate_model without the guard of line 326
evaluate_model_assertion_removed == TRUE

\* the expression asserted at line 326
evaluate_model_assertion == FALSE

evaluate_model ==
    /\ pc = "new"
    /\ \E src_path \in SrcPaths, optimize_mode \in OptimizeModes :
          IF ~evaluate_model_assertion
          THEN /\ ev' = [ev EXCEPT !.src_path = src_path,
                                   !.optimize_mode = optimize_mode]
               /\ Fail("AssertionError", 326)
          ELSE /\ ev' = [ev EXCEPT !.src_path = src_path,
                                   !.optimize_mode = optimize_mode,
                                   !.run_from_dict = 1,
                                   !.read = {"evaluate_timing.json", "eval_metrics.json"},
                                   !.returned = TRUE]
               /\ pc' = "evaluated"
               /\ err' = NoError
    /\ UNCHANGED <<given, data_args, self, attrs, loc, tok_calls, logged>>

-----------------------------------------------------------------------------
\* GlueXP.prepare

\* lines 314-318: the set-up calls before create_dataset
prepare ==
    /\ pc = "constructed"
    /\ pc' = "pr_create_dataset"
    /\ UNCHANGED <<given, data_args, err, self, attrs, loc, tok_calls, logged, ev>>

\* line 319: self.create_dataset().  glue_xp.py defines create_datasets and
\* no create_dataset: the call fails with AttributeError, or runs a method
\* inherited from XP, which assigns none of the attributes of this file.
prepare_create_dataset ==
    /\ pc = "pr_create_dataset"
    /\ \E inherited \in BoolInputs :
          IF inherited
          THEN pc' = "pr_create_config" /\ err' = err
          ELSE Fail("AttributeError", 319)
    /\ UNCHANGED <<given, data_args, self, attrs, loc, tok_calls, logged, ev>>

\* XP.create_config: loads the pretrained model's configuration, keeps it in
\* self.config and returns it; the model is the same in every call
create_config(label2id) ==
    /\ label2id \in Label2IdChoices
    /\ "config" \in attrs => label2id = self.config

\* line 320
prepare_create_config ==
    /\ pc = "pr_create_config"
    /\ \E label2id \in Label2IdChoices :
          /\ create_config(label2id)
          /\ self' = [self EXCEPT !.config = label2id]
    /\ attrs' = attrs \cup {"config"}
    /\ pc' = "pr_create_tokenizer"
    /\ UNCHANGED <<given, data_args, err, loc, tok_calls, logged, ev>>

\* line 321: XP.create_tokenizer sets self.tokenizer
prepare_create_tokenizer ==
    /\ pc = "pr_create_tokenizer"
    /\ attrs' = attrs \cup {"tokenizer"}
    /\ pc' = "pr_create_trainer"
    /\ UNCHANGED <<given, data_args, err, self, loc, tok_calls, logged, ev>>

\* the attribute create_trainer reads first that was never assigned, "" if none
\* (lines 304, 305, 307)
trainer_missing_attr(do_train, do_eval) ==
    IF do_train /\ "train_dataset" \notin attrs THEN "train_dataset"
    ELSE IF do_eval /\ "validation_dataset" \notin attrs THEN "validation_dataset"
    ELSE IF "tokenizer" \notin attrs THEN "tokenizer"
    ELSE ""

MissingLine(attr) ==
    IF attr = "train_dataset" THEN 304
    ELSE IF attr = "validation_dataset" THEN 305 ELSE 307

\* line 322: GlueXP.create_trainer (lines 268-312)
create_trainer ==
    /\ pc = "pr_create_trainer"
    /\ \E do_train, do_eval \in BoolInputs :
          LET missing == trainer_missing_attr(do_train, do_eval)
          IN  IF missing # ""
              THEN /\ Fail("AttributeError", MissingLine(missing))
                   /\ UNCHANGED <<self, attrs>>
              ELSE /\ self' = [self EXCEPT !.trainer =
                          [do_train |-> do_train, do_eval |-> do_eval,
                           train_dataset |-> IF do_train THEN self.train_dataset
                                             ELSE "None",
                           eval_dataset |-> IF do_eval THEN self.validation_dataset
                                            ELSE "None",
                           data_collator |-> IF data_args.pad_to_max_length
                                             THEN "default_data_collator"
                                             ELSE "None"]]
                   /\ attrs' = attrs \cup {"trainer"}
                   /\ pc' = "prepared"
                   /\ err' = err
    /\ UNCHANGED <<given, data_args, loc, tok_calls, logged, ev>>

\* compute_metrics (lines 284-295), called back by the trainer
compute_metrics ==
    /\ pc \in {"prepared", "done"}
    /\ "trainer" \in attrs
    /\ ev.metric = ""
    /\ IF "is_regression" \notin attrs
       THEN Fail("AttributeError", 286) /\ ev' = ev
       ELSE /\ ev' = [ev EXCEPT !.metric =
                        IF data_args.task_name # None THEN "glue"
                        ELSE IF self.is_regression THEN "mse" ELSE "accuracy"]
            /\ UNCHANGED <<pc, err>>
    /\ UNCHANGED <<given, data_args, self, attrs, loc, tok_calls, logged>>

-----------------------------------------------------------------------------
\* GlueXP.create_datasets

\* lines 134-158: load the dataset and keep it in self.datasets
create_datasets ==
    /\ pc = "prepared"
    /\ loc' = [NoLocals EXCEPT !.datasets.builder = Loader(data_args)]
    /\ attrs' = attrs \cup {"datasets"}
    /\ pc' = "cd_labels"
    /\ UNCHANGED <<given, data_args, err, self, tok_calls, logged, ev>>

\* lines 163-187.  Line 185 stores is_regression; line 186 reads the local
\* label_list, which raises UnboundLocalError when no branch assigned it.
create_datasets_labels ==
    /\ pc = "cd_labels"
    /\ \E feature \in LabelFeatures(data_args) :
       \E train \in TrainLabels(data_args, feature) :
          LET ds == [loc.datasets EXCEPT !.dtype = feature.dtype,
                                         !.names = feature.names,
                                         !.label = [sp \in {"train"} |-> train]]
              d  == derive_labels(data_args.task_name, ds)
          IN  /\ loc' = [loc EXCEPT !.datasets = ds]
              /\ IF d.label_list = None
                 THEN /\ self' = [self EXCEPT !.is_regression = d.is_regression]
                      /\ attrs' = attrs \cup {"is_regression"}
                      /\ Fail("UnboundLocalError", 186)
                 ELSE /\ self' = [self EXCEPT !.is_regression = d.is_regression,
                                              !.label_list = d.label_list[1],
                                              !.num_labels = d.num_labels]
                      /\ attrs' = attrs \cup {"is_regression", "label_list",
                                              "num_labels"}
                      /\ pc' = "cd_keys"
                      /\ err' = err
    /\ UNCHANGED <<given, data_args, tok_calls, logged, ev>>

\* lines 189-203
create_datasets_keys ==
    /\ pc = "cd_keys"
    /\ \E columns \in TrainColumnNames(data_args) :
          LET k == resolve_keys(data_args.task_name, columns)
          IN  /\ loc' = [loc EXCEPT !.datasets.columns = columns]
              /\ IF k.ok
                 THEN /\ self' = [self EXCEPT !.sentence1_key = k.key1,
                                              !.sentence2_key = k.key2]
                      /\ attrs' = attrs \cup {"sentence1_key", "sentence2_key"}
                      /\ pc' = "cd_remap"
                      /\ err' = err
                 ELSE /\ Fail("IndexError", 201)
                      /\ UNCHANGED <<self, attrs>>
    /\ UNCHANGED <<given, data_args, tok_calls, logged, ev>>

\* lines 205-237
create_datasets_label_to_id ==
    /\ pc = "cd_remap"
    /\ \E label2id \in Label2IdChoices :
          /\ create_config(label2id)
          /\ LET r == resolve_label_to_id(label2id, self.num_labels,
                          data_args.task_name, self.is_regression, self.label_list)
             IN  /\ self' = [self EXCEPT !.config = label2id,
                                         !.label_to_id = r.table]
                 /\ logged' = (logged \/ r.warned)
    /\ attrs' = attrs \cup {"config", "label_to_id"}
    /\ loc' = [loc EXCEPT !.padding = padding_of(data_args),
                          !.max_length = max_length_of(data_args)]
    /\ pc' = "cd_map"
    /\ UNCHANGED <<given, data_args, err, tok_calls, ev>>

\* lines 252-256: datasets.map applies preprocess_function to every split.
\* Line 245 reads self.tokenizer; line 249 looks every label up in the table.
create_datasets_map ==
    /\ pc = "cd_map"
    /\ \E label \in SplitLabels(data_args, loc.datasets, loc.datasets.label["train"]) :
          IF "tokenizer" \notin attrs
          THEN /\ Fail("AttributeError", 245)
               /\ UNCHANGED <<loc, tok_calls>>
          ELSE /\ tok_calls' = tok_calls \cup
                      {tokenizer_call(self.sentence2_key, loc.padding, loc.max_length)}
               /\ IF \A sp \in DOMAIN label : labels_ok(self.label_to_id, label[sp])
                  THEN /\ loc' = [loc EXCEPT !.datasets.label = label,
                                             !.mapped =
                              [sp \in DOMAIN label |->
                                  preprocess_labels(self.label_to_id, label[sp])]]
                       /\ pc' = "cd_select"
                       /\ err' = err
                  ELSE /\ loc' = [loc EXCEPT !.datasets.label = label]
                       /\ Fail("KeyError", 249)
    /\ UNCHANGED <<given, data_args, self, attrs, logged, ev>>

\* the split line 259 evaluates on
eval_split(task_name) ==
    IF task_name = Some(T_mnli) THEN "validation_matched" ELSE "validation"

\* the split line 261 reads when a task name is given
test_split(task_name) ==
    IF task_name = Some(T_mnli) THEN "test_matched" ELSE "test"

\* the exception lines 258-264 raise on the preprocessed splits, NoError if none
select_splits(task_name, mapped) ==
    IF eval_split(task_name) \notin DOMAIN mapped
    THEN Raise("KeyError", 259)
    ELSE IF task_name # None /\ test_split(task_name) \notin DOMAIN mapped
    THEN Raise("KeyError", 261)
    ELSE IF Len(mapped["train"]) < SampleSize
    THEN Raise("ValueError", 264)
    ELSE NoError

\* lines 258-265: the preprocessed splits are bound to the locals
\* train_dataset, eval_dataset and test_dataset, random.sample draws
\* SampleSize indices of the train split (ValueError when it is shorter), and
\* the method returns: its locals are gone.
create_datasets_return ==
    /\ pc = "cd_select"
    /\ LET e == select_splits(data_args.task_name, loc.mapped)
       IN  IF e # NoError
           THEN Fail(e.kind, e.line)
           ELSE pc' = "done" /\ err' = err
    /\ loc' = NoLocals
    /\ UNCHANGED <<given, data_args, self, attrs, tok_calls, logged, ev>>

-----------------------------------------------------------------------------

Next ==
    \/ PostInit
    \/ evaluate_model
    \/ prepare
    \/ prepare_create_dataset
    \/ prepare_create_config
    \/ prepare_create_tokenizer
    \/ create_trainer
    \/ compute_metrics
    \/ create_datasets
    \/ create_datasets_labels
    \/ create_datasets_keys
    \/ create_datasets_label_to_id
    \/ create_datasets_map
    \/ create_datasets_return

Spec == Init /\ [][Next]_vars

-----------------------------------------------------------------------------
\* Properties

\* GlueDataTrainingArguments has been constructed, or its construction raised
PostInitDone == data_args # NoArgs

\* __post_init__ raised
ConstructionFailed == err.line \in {83, 85, 88, 93}

TaskNames ==
    {T_cola, T_mnli, T_mrpc, T_qnli, T_qqp, T_rte, T_sst2, T_stsb, T_wnli}

Range(seq) == {seq[i] : i \in 1..Len(seq)}

FloatDtypes == {"float32", "float64"}

\* the run gives a regression label space: task stsb, or a csv/json dataset
\* with a floating-point label column
RegressionCase ==
    \/ data_args.task_name = Some(T_stsb)
    \/ data_args.task_name = None /\ loc.datasets.dtype \in FloatDtypes

\* C1: in the regression case, once the label step of create_datasets has
\* acted, it has not raised, and is_regression = true and num_labels = 1 are
\* stored on the experiment object.
C1_RegressionDerivationCompletes ==
    (RegressionCase /\ "is_regression" \in attrs) =>
        /\ err.kind # "UnboundLocalError"
        /\ self.is_regression
        /\ "num_labels" \in attrs
        /\ self.num_labels = 1

\* the lower-cased label names of the model's label2id
LowerModelNames == {lower(self.config[i][1]) : i \in 1..Len(self.config)}

\* C2: with a task name and a model label2id that differs from the default
\* for num_labels, once label_to_id is stored: a table exists iff the
\* lower-cased model label names are the dataset's label values, it maps each
\* dataset label index to the model id of that label's name, and when no
\* table exists the warning was emitted.
C2_RemapIffNamesMatch ==
    ( /\ data_args.task_name # None
      /\ "label_to_id" \in attrs
      /\ ~DictEq(self.config, DefaultLabel2Id(self.num_labels)) ) =>
        LET match == LowerModelNames = Range(self.label_list)
        IN  /\ (self.label_to_id # None) <=> match
            /\ self.label_to_id # None =>
                  \A i \in 1..Len(self.label_list) :
                     \E j \in 1..Len(self.config) :
                        /\ lower(self.config[j][1]) = self.label_list[i]
                        /\ self.label_to_id[1][i - 1] = self.config[j][2]
            /\ ~match => logged

\* C3: a given task name is accepted iff its lower-cased form is one of the 9
\* keys of task_to_keys, the lower-cased name is what is stored, any other
\* name raises ValueError, and without a task name ValueError is raised
\* when a file is missing and not when both files are given.
C3_TaskNameValidation ==
    PostInitDone =>
        /\ DOMAIN task_to_keys = TaskNames
        /\ Cardinality(TaskNames) = 9
        /\ given.task_name # None =>
              /\ ~ConstructionFailed <=> lower(given.task_name[1]) \in TaskNames
              /\ ~ConstructionFailed =>
                    data_args.task_name = Some(lower(given.task_name[1]))
              /\ ConstructionFailed => err = Raise("ValueError", 83)
        /\ given.task_name = None =>
              IF given.train_file = None \/ given.validation_file = None
              THEN err = Raise("ValueError", 85)
              ELSE err.line \notin {83, 85}

C3_Witness ==
    /\ pc = "constructed"
    /\ given.task_name = Some(<<"M","N","L","I">>)
    /\ data_args.task_name = Some(T_mnli)

\* the name is csv or json, or ends with .csv or .json
GoodExtension(file) ==
    \E k \in 0..Len(file) :
        /\ k > 0 => file[k] = "."
        /\ SubSeq(file, k + 1, Len(file)) \in {E_csv, E_json}

ProvidedBad(file) == file # None /\ ~GoodExtension(file[1])

\* C4 as stated: whenever a provided train_file or validation_file has an
\* extension other than csv or json, construction fails, with or without a
\* task name.
C4_BadExtensionAlwaysFails ==
    ( /\ PostInitDone
      /\ ProvidedBad(given.train_file) \/ ProvidedBad(given.validation_file) ) =>
        ConstructionFailed

\* C4 amended: without a task name, whenever a provided train_file or
\* validation_file has an extension other than csv or json, construction
\* fails, whichever file it is: with AssertionError when both files are
\* given, with ValueError when the other file is missing.
C4_BadExtensionFailsWithoutTask ==
    ( /\ PostInitDone
      /\ given.task_name = None
      /\ ProvidedBad(given.train_file) \/ ProvidedBad(given.validation_file) ) =>
        /\ ConstructionFailed
        /\ pc = "failed"
        /\ IF given.train_file # None /\ given.validation_file # None
           THEN err.kind = "AssertionError"
           ELSE err.kind = "ValueError"

C4_Witness ==
    /\ given.task_name = None
    /\ given.train_file = Some(F_a_csv)
    /\ given.validation_file = Some(F_c_txt)
    /\ err.kind = "AssertionError"
    /\ pc = "failed"

\* C5: without a task name and with a label column that is not floating
\* point, once the labels are derived: is_regression is false, num_labels is
\* the number N of distinct train labels, label_list holds exactly those
\* values in strictly ascending order, and, once label_to_id is stored, it
\* maps label_list[i] to i (counted from 0) and has no other key.
C5_InferredLabelSpace ==
    ( /\ data_args.task_name = None
      /\ "num_labels" \in attrs
      /\ loc.datasets.dtype \notin (FloatDtypes \cup {""}) ) =>
        LET values == Range(loc.datasets.label["train"])
            ll == self.label_list
        IN  /\ self.is_regression = FALSE
            /\ self.num_labels = Cardinality(values)
            /\ Len(ll) = Cardinality(values)
            /\ Range(ll) = values
            /\ \A i \in 1..(Len(ll) - 1) : ll[i] < ll[i + 1]
            /\ "label_to_id" \in attrs =>
                  /\ self.label_to_id # None
                  /\ DOMAIN self.label_to_id[1] = values
                  /\ \A i \in 1..Len(ll) : self.label_to_id[1][ll[i]] = i - 1

C5_Witness ==
    /\ pc = "cd_map"
    /\ data_args.task_name = None
    /\ loc.datasets.label["train"] = <<5, 2, 5>>
    /\ self.label_list = <<2, 5>>
    /\ self.num_labels = 2
    /\ self.label_to_id[1][5] = 1

\* create_datasets is past line 203, or has ended
PastKeys ==
    \/ pc \in {"cd_remap", "cd_map", "cd_select", "done"}
    \/ pc = "failed" /\ "datasets" \in attrs

\* C6: once create_datasets is past the text-field step, the stored pair is
\* the task_to_keys entry of the task; without a task it is
\* (sentence1, sentence2) when both columns exist, else the first two
\* non-label columns when there are two, else the only one and None.
C6_TextFieldResolution ==
    PastKeys =>
        IF data_args.task_name # None
        THEN /\ {"sentence1_key", "sentence2_key"} \subseteq attrs
             /\ <<self.sentence1_key, self.sentence2_key>>
                    = task_to_keys[data_args.task_name[1]]
        ELSE LET nl == SelectSeq(loc.datasets.columns, LAMBDA c : c # "label")
             IN  Len(nl) >= 1 =>
                    /\ {"sentence1_key", "sentence2_key"} \subseteq attrs
                    /\ <<self.sentence1_key, self.sentence2_key>> =
                          IF {"sentence1", "sentence2"} \subseteq Range(nl)
                          THEN <<"sentence1", Some("sentence2")>>
                          ELSE IF Len(nl) >= 2 THEN <<nl[1], Some(nl[2])>>
                          ELSE <<nl[1], None>>

\* the preprocessing pass has run: it completed, or raised
MapCompleted == pc = "cd_select"

MapRaised == pc = "failed" /\ err.line \in {245, 249}

\* the labels of the preprocessed splits are the original labels looked up
\* in label_to_id when the table exists, and the original labels otherwise
LabelsRewritten ==
    /\ DOMAIN loc.mapped = DOMAIN loc.datasets.label
    /\ \A sp \in DOMAIN loc.datasets.label :
          /\ Len(loc.mapped[sp]) = Len(loc.datasets.label[sp])
          /\ \A i \in 1..Len(loc.datasets.label[sp]) :
                loc.mapped[sp][i] =
                    IF self.label_to_id # None
                    THEN self.label_to_id[1][loc.datasets.label[sp][i]]
                    ELSE loc.datasets.label[sp][i]

\* for a csv/json classification dataset every output label is a class index
LabelsDense ==
    data_args.task_name = None =>
        \A sp \in DOMAIN loc.mapped : \A i \in 1..Len(loc.mapped[sp]) :
            loc.mapped[sp][i] \in 0..(self.num_labels - 1)

\* some label of some split is no key of the label_to_id table
UnknownLabel ==
    /\ self.label_to_id # None
    /\ \E sp \in DOMAIN loc.datasets.label :
          \E i \in 1..Len(loc.datasets.label[sp]) :
             loc.datasets.label[sp][i] \notin DOMAIN self.label_to_id[1]

\* C7 as stated: the preprocessing pass completes over every split, with the
\* labels rewritten through the table, or unchanged when there is none.
C7_MapCompletes ==
    (MapCompleted \/ MapRaised) =>
        /\ MapCompleted
        /\ LabelsRewritten
        /\ LabelsDense

\* C7 amended: the preprocessing pass completes over every split exactly
\* when every label of every split is a key of the table, or there is no
\* table; the labels are then rewritten through the table (class indices in
\* 0..num_labels-1 for a csv/json dataset), or unchanged when there is none.
\* A label that is no key of the table (a validation label of a csv/json
\* dataset that the train split lacks) makes the pass raise KeyError.
C7_MapRewritesKnownLabels ==
    /\ MapCompleted => ~UnknownLabel /\ LabelsRewritten /\ LabelsDense
    /\ MapRaised => UnknownLabel /\ err = Raise("KeyError", 249) /\ loc.mapped = <<>>

C7_Witness ==
    /\ MapCompleted
    /\ data_args.task_name = None
    /\ loc.datasets.label["validation"] = <<5>>
    /\ loc.mapped["validation"] = <<1>>

\* C8: every tokenizer call truncates, with max_length equal to the
\* configured max_seq_length, whatever pad_to_max_length is.
C8_TruncatesToMaxSeqLength ==
    \A c \in tok_calls :
        /\ c.truncation = TRUE
        /\ c.max_length = Some(data_args.max_seq_length)

\* evaluate_model was called
EvaluateCalled == ev.src_path # <<>>

\* C9: a call of evaluate_model ends with the AssertionError of line 326,
\* and has neither called run_from_dict, nor read a file, nor returned.
C9_EvaluateModelAlwaysFails ==
    EvaluateCalled =>
        /\ pc = "failed"
        /\ err = Raise("AssertionError", 326)
        /\ ev.run_from_dict = 0
        /\ ev.read = {}
        /\ ~ev.returned

C9_Witness ==
    /\ EvaluateCalled
    /\ ev.optimize_mode = "block_sparse"
    /\ pc = "failed"

\* C10: no step reads an attribute before it is assigned (the tokenizer in
\* the preprocessing pass, is_regression in compute_metrics, the datasets
\* and the tokenizer in create_trainer), and the trainer holds the
\* preprocessed train split when do_train and the preprocessed validation
\* split when do_eval.
C10_SetupOrderAndHandOff ==
    /\ ~(err.kind = "AttributeError" /\ err.line \in {245, 286, 304, 305, 307})
    /\ "trainer" \in attrs =>
          /\ self.trainer.do_train => self.trainer.train_dataset = "preprocessed"
          /\ self.trainer.do_eval => self.trainer.eval_dataset = "preprocessed"

====
